---- MODULE Spec2Model ----
(***************************************************************************)
(* A model of state.js (src/src/state.ts): the model graph built by the    *)
(* Region / Vertex / State / PseudoState / Transition constructors, the    *)
(* compiled flag (StateMachine.clean), the Visitor walk, initialise, and   *)
(* the DictionaryInstance active-configuration store; and of               *)
(* Vertex.evaluate (src/src/Vertex.ts).                                    *)
(*                                                                         *)
(* Objects live in two arenas.  elems holds StateMachine, Region and       *)
(* Vertex objects in creation order; trans holds Transition objects.  An   *)
(* object reference is its index; 0 is undefined.                          *)
(***************************************************************************)
EXTENDS Naturals, Sequences, FiniteSets, TLC

\* Bounds of the model.  MaxElements is the capacity of the arena;
\* MaxGraphElements is the number of elements Spec and SpecStore build.
MaxElements == 6
MaxGraphElements == 4
MaxTransitions == 1
MaxBehaviors == 1

\* Inputs of the operations.
MachineNames == {"m", "n"}
RegionNames == {"default", "r"}
VertexNames == {"a"}
\* Spec draws names from these: a name is read by the store and the console only.
GraphMachineNames == {"m"}
GraphRegionNames == {"r"}
Behaviors == {"b1", "b2"}
UserGuards == {"gEvent"}
Instances == {"i1", "i2"}
\* SpecHierarchy sets current states on these.
HierarchyInstances == {"i1"}
PseudoStateKinds == {"Choice", "DeepHistory", "Initial", "Junction", "ShallowHistory"}
PseudoStateKindInputs == {"Initial"}
TransitionKinds == {"External", "Internal", "Local"}

Undefined == 0

VARIABLES
    elems,      \* arena of StateMachine / Region / Vertex objects
    trans,      \* arena of Transition objects
    store,      \* store[i]: DictionaryInstance.activeStateConfiguration of instance i
    console,    \* the initialise / visiting lines the last operation wrote to the console
    lastSet,    \* history: lastSet[i][r] is the state of the last setCurrent(r, .) on i
    dirty,      \* history: machines structurally mutated since their last compile
    evaluated   \* the last vertex.evaluate call: what it returned, the actions it invoked

vars == <<elems, trans, store, console, lastSet, dirty, evaluated>>

Ids == 1..Len(elems)
TIds == 1..Len(trans)

IsKind(e, k) == elems[e].kind = k
Machines == {e \in Ids : IsKind(e, "StateMachine")}
Regions == {e \in Ids : IsKind(e, "Region")}
States == {e \in Ids : IsKind(e, "State")}
PseudoStates == {e \in Ids : IsKind(e, "PseudoState")}
Vertices == {e \in Ids : elems[e].kind \in {"Vertex", "State", "PseudoState"}}

\* toString(): the name of a StateMachine, the qualified name of a NamedElement.
ElementToString(h, e) == IF h[e].kind = "StateMachine" THEN h[e].name ELSE h[e].qualifiedName

NamespaceSeparator == "."

\* NamedElement constructor: parent.toString() + separator + name.
QualifiedName(h, parent, name) ==
    IF parent # Undefined THEN ElementToString(h, parent) \o NamespaceSeparator \o name ELSE name

\* getRoot(): follow parent up to the StateMachine.
RECURSIVE GetRootIn(_, _)
GetRootIn(h, e) == IF h[e].kind = "StateMachine" THEN e ELSE GetRootIn(h, h[e].parent)

GetRoot(e) == GetRootIn(elems, e)

\* A fresh object with every field at its initial value.
NewObject(kind, name, parent, qname, pkind) ==
    [kind |-> kind, name |-> name, parent |-> parent, qualifiedName |-> qname,
     regions |-> <<>>, vertices |-> <<>>, defaultRegion |-> Undefined,
     outgoing |-> <<>>, incoming |-> <<>>,
     entryBehavior |-> <<>>, exitBehavior |-> <<>>,
     pkind |-> pkind, clean |-> FALSE, onInitialise |-> <<>>]

\* this.getRoot().clean = false
UncleanSkipped(h, e) == h
Unclean(h, e) == [h EXCEPT ![GetRootIn(h, e)].clean = FALSE]

Init ==
    /\ elems = <<>>
    /\ trans = <<>>
    /\ store = [i \in Instances |-> <<>>]
    /\ console = <<>>
    /\ lastSet = [i \in Instances |-> <<>>]
    /\ dirty = {}
    /\ evaluated = [returned |-> FALSE, invoked |-> <<>>]

\* new StateMachine(name)
NewStateMachine(name) ==
    /\ Len(elems) < MaxElements
    /\ elems' = Append(elems, NewObject("StateMachine", name, Undefined, name, "none"))
    /\ console' = <<>>
    /\ UNCHANGED <<trans, store, lastSet, dirty, evaluated>>

\* The heap after new Region(name, parent): the region is appended to the arena
\* and to parent.regions, and the root is marked not clean.
WithRegion(h, name, parent) ==
    LET r == Len(h) + 1
        h1 == Append(h, NewObject("Region", name, parent, QualifiedName(h, parent, name), "none"))
        h2 == [h1 EXCEPT ![parent].regions = Append(@, r)]
    IN  Unclean(h2, r)

\* new Region(name, parent)
NewRegion(name, parent) ==
    /\ Len(elems) < MaxElements
    /\ elems[parent].kind \in {"State", "StateMachine"}
    /\ elems' = WithRegion(elems, name, parent)
    /\ dirty' = dirty \cup {GetRoot(parent)}
    /\ console' = <<>>
    /\ UNCHANGED <<trans, store, lastSet, evaluated>>

\* getDefaultRegion(): the heap after the call (the region "default" is created
\* under the parent on first use and remembered in parent.defaultRegion).
DefaultRegionName == "default"

HeapAfterGetDefaultRegionForgotten(h, parent) ==
    IF h[parent].defaultRegion # Undefined THEN h ELSE WithRegion(h, DefaultRegionName, parent)
HeapAfterGetDefaultRegion(h, parent) ==
    IF h[parent].defaultRegion # Undefined
    THEN h
    ELSE [WithRegion(h, DefaultRegionName, parent) EXCEPT ![parent].defaultRegion = Len(h) + 1]

\* getDefaultRegion(): the region returned.
GetDefaultRegion(h, parent) ==
    IF h[parent].defaultRegion # Undefined THEN h[parent].defaultRegion ELSE Len(h) + 1

\* The heap after new Vertex / State / PseudoState (name, parent[, pkind]).
WithVertexUnowned(h, kind, name, parent, pkind) ==
    LET isRegion == h[parent].kind = "Region"
        h0 == IF isRegion THEN h ELSE HeapAfterGetDefaultRegion(h, parent)
        region == IF isRegion THEN parent ELSE GetDefaultRegion(h, parent)
        v == Len(h0) + 1
        h1 == Append(h0, NewObject(kind, name, region, QualifiedName(h0, region, name), pkind))
    IN  Unclean(h1, v)
WithVertex(h, kind, name, parent, pkind) ==
    LET isRegion == h[parent].kind = "Region"
        h0 == IF isRegion THEN h ELSE HeapAfterGetDefaultRegion(h, parent)
        region == IF isRegion THEN parent ELSE GetDefaultRegion(h, parent)
        v == Len(h0) + 1
        h1 == Append(h0, NewObject(kind, name, region, QualifiedName(h0, region, name), pkind))
        h2 == [h1 EXCEPT ![region].vertices = Append(@, v)]
    IN  Unclean(h2, v)

\* new Vertex(name, parent), new State(name, parent), new PseudoState(name, parent, kind)
NewVertex(kind, name, parent, pkind) ==
    /\ elems[parent].kind \in {"Region", "State", "StateMachine"}
    /\ Len(WithVertex(elems, kind, name, parent, pkind)) <= MaxElements
    /\ elems' = WithVertex(elems, kind, name, parent, pkind)
    /\ dirty' = dirty \cup {GetRoot(parent)}
    /\ console' = <<>>
    /\ UNCHANGED <<trans, store, lastSet, evaluated>>

\* The default guard of a new Transition:
\* source instanceof PseudoState ? () => true : message => message === this.source
DefaultGuardAlways(h, source) == "always"
DefaultGuard(h, source) == IF h[source].kind = "PseudoState" THEN "always" ELSE "isSource"

\* The kind a new Transition ends with: Internal when it has no target.
KindOfTransitionAsRequested(target, kind) == kind
KindOfTransition(target, kind) == IF target # Undefined THEN kind ELSE "Internal"

\* new Transition(source, target, kind), also reached through source.to(target, kind)
NewTransition(source, target, kind) ==
    LET t == Len(trans) + 1
        h1 == [elems EXCEPT ![source].outgoing = Append(@, t)]
        h2 == Unclean(h1, source)
        h3 == IF target # Undefined THEN [h2 EXCEPT ![target].incoming = Append(@, t)] ELSE h2
    IN  /\ Len(trans) < MaxTransitions
        /\ source \in Vertices
        /\ target \in Vertices \cup {Undefined}
        /\ trans' = Append(trans, [source |-> source, target |-> target,
                                   kind |-> KindOfTransition(target, kind),
                                   guard |-> DefaultGuard(elems, source),
                                   effectBehavior |-> <<>>])
        /\ elems' = h3
        /\ dirty' = dirty \cup {GetRoot(source)} \cup
                    (IF target # Undefined THEN {GetRoot(target)} ELSE {})
        /\ console' = <<>>
        /\ UNCHANGED <<store, lastSet, evaluated>>

\* The guard transition.else() installs: () => false
GuardAfterElseKept(guard) == guard
GuardAfterElse(guard) == "never"

\* transition.else()
Else(t) ==
    /\ t \in TIds
    /\ trans' = [trans EXCEPT ![t].guard = GuardAfterElse(@)]
    /\ console' = <<>>
    /\ UNCHANGED <<elems, store, lastSet, dirty, evaluated>>

\* transition.when(guard)
When(t, guard) ==
    /\ t \in TIds
    /\ trans' = [trans EXCEPT ![t].guard = guard]
    /\ console' = <<>>
    /\ UNCHANGED <<elems, store, lastSet, dirty, evaluated>>

\* transition.effect(action)
Effect(t, action) ==
    /\ t \in TIds
    /\ Len(trans[t].effectBehavior) < MaxBehaviors
    /\ trans' = [trans EXCEPT ![t].effectBehavior = Append(@, action)]
    /\ elems' = Unclean(elems, trans[t].source)
    /\ dirty' = dirty \cup {GetRoot(trans[t].source)}
    /\ console' = <<>>
    /\ UNCHANGED <<store, lastSet, evaluated>>

\* The behaviour lists of a state after state.exit(action).
ExitLists(s, action) ==
    [entryBehavior |-> s.entryBehavior, exitBehavior |-> Append(s.exitBehavior, action)]

\* The behaviour lists of a state after state.enter(action).
EnterLists(s, action) ==
    [entryBehavior |-> s.entryBehavior, exitBehavior |-> Append(s.exitBehavior, action)]

\* state.exit(action)
Exit(s, action) ==
    LET l == ExitLists(elems[s], action)
    IN  /\ s \in States
        /\ Len(elems[s].exitBehavior) < MaxBehaviors
        /\ elems' = Unclean([elems EXCEPT ![s].entryBehavior = l.entryBehavior,
                                          ![s].exitBehavior = l.exitBehavior], s)
        /\ dirty' = dirty \cup {GetRoot(s)}
        /\ console' = <<>>
        /\ UNCHANGED <<trans, store, lastSet, evaluated>>

\* state.enter(action)
Enter(s, action) ==
    LET l == EnterLists(elems[s], action)
    IN  /\ s \in States
        /\ Len(elems[s].exitBehavior) < MaxBehaviors
        /\ elems' = Unclean([elems EXCEPT ![s].entryBehavior = l.entryBehavior,
                                          ![s].exitBehavior = l.exitBehavior], s)
        /\ dirty' = dirty \cup {GetRoot(s)}
        /\ console' = <<>>
        /\ UNCHANGED <<trans, store, lastSet, evaluated>>

\* One console line: what was printed and the object it was printed for.
Line(line, kind, id, text) == [line |-> line, kind |-> kind, id |-> id, text |-> text]

\* Transition.toString()
TransitionToString(t) ==
    trans[t].kind \o "(" \o
    (IF trans[t].kind = "Internal"
     THEN ElementToString(elems, trans[t].source)
     ELSE ElementToString(elems, trans[t].source) \o " -> " \o
          (IF trans[t].target # Undefined
           THEN ElementToString(elems, trans[t].target) ELSE "undefined")) \o ")"

\* Visitor.visitElement: the node visit proper.
VisitElement(e) == <<Line("visiting", "element", e, ElementToString(elems, e))>>

\* Visitor.visitTransition
VisitTransition(t) == <<Line("visiting", "transition", t, TransitionToString(t))>>

\* for (const transition of vertex.outgoing) transition.accept(this, arg)
RECURSIVE AcceptTransitions(_)
AcceptTransitions(ts) ==
    IF ts = <<>> THEN <<>> ELSE VisitTransition(Head(ts)) \o AcceptTransitions(Tail(ts))

\* element.accept(visitor): the double dispatch on the element's class.
RECURSIVE Accept(_)

\* for (const child of children) child.accept(this, arg)
RECURSIVE AcceptAll(_)
AcceptAll(es) == IF es = <<>> THEN <<>> ELSE Accept(Head(es)) \o AcceptAll(Tail(es))

\* Visitor.visitVertex
VisitVertex(v) == AcceptTransitions(elems[v].outgoing) \o VisitElement(v)

\* Visitor.visitPseudoState
VisitPseudoState(v) == VisitVertex(v)

\* Visitor.visitState
VisitState(s) == AcceptAll(elems[s].regions) \o VisitVertex(s)

\* Visitor.visitRegion
VisitRegionPreOrder(r) == VisitElement(r) \o AcceptAll(elems[r].vertices)
VisitRegion(r) == AcceptAll(elems[r].vertices) \o VisitElement(r)

\* Visitor.visitStateMachine
VisitStateMachine(m) == AcceptAll(elems[m].regions) \o VisitElement(m)

Accept(e) ==
    CASE elems[e].kind = "Region" -> VisitRegion(e)
      [] elems[e].kind = "Vertex" -> VisitVertex(e)
      [] elems[e].kind = "PseudoState" -> VisitPseudoState(e)
      [] elems[e].kind = "State" -> VisitState(e)
      [] elems[e].kind = "StateMachine" -> VisitStateMachine(e)

\* invoke(actions, message, instance, deepHistory): each action in turn acts on
\* the instance; an action is the function it applies to the instance's store.
RECURSIVE Invoke(_, _)
Invoke(actions, st) ==
    IF actions = <<>> THEN st ELSE Invoke(Tail(actions), Head(actions)[st])

\* The else branch of initialise (no instance): what it prints.
CompileLog(m) == <<Line("initialise", "model", m, ElementToString(elems, m))>> \o Accept(m)

\* The else branch of initialise (no instance): the heap it leaves.
CompiledHeapPushesAction(h, m) ==
    [h EXCEPT ![m].clean = TRUE, ![m].onInitialise = Append(@, [st \in {<<>>} |-> st])]
CompiledHeap(h, m) == [h EXCEPT ![m].clean = TRUE]

\* autoInitialiseModel && this.clean === false
NeedsCompileAlways(h, m, auto) == auto
NeedsCompile(h, m, auto) == auto /\ h[m].clean = FALSE

NoInstance == "undefined"

\* model.initialise(instance?, autoInitialiseModel = true)
Initialise(m, instance, auto) ==
    /\ m \in Machines
    /\ IF instance # NoInstance
       THEN LET compile == NeedsCompile(elems, m, auto)
            IN  /\ elems' = IF compile THEN CompiledHeap(elems, m) ELSE elems
                /\ dirty' = IF compile THEN dirty \ {m} ELSE dirty
                /\ console' = (IF compile THEN CompileLog(m) ELSE <<>>) \o
                              <<Line("initialise", "instance", Undefined, instance)>>
                /\ store' = [store EXCEPT ![instance] = Invoke(elems[m].onInitialise, @)]
       ELSE /\ elems' = CompiledHeap(elems, m)
            /\ dirty' = dirty \ {m}
            /\ console' = CompileLog(m)
            /\ store' = store
    /\ UNCHANGED <<trans, lastSet, evaluated>>

\* The dictionary key of a region: region.qualifiedName.
KeyByName(r) == elems[r].name
Key(r) == elems[r].qualifiedName

\* DictionaryInstance.getCurrent(region) on the store st of one instance.
GetCurrentIn(st, r) == IF Key(r) \in DOMAIN st THEN st[Key(r)] ELSE Undefined

GetCurrent(i, r) == GetCurrentIn(store[i], r)

\* The stores of all instances after instance i did setCurrent(region, state).
StoresAfterSetShared(st, i, r, s) == [j \in DOMAIN st |-> (Key(r) :> s) @@ st[j]]
StoresAfterSet(st, i, r, s) == [st EXCEPT ![i] = (Key(r) :> s) @@ @]

\* instance.setCurrent(region, state)
SetCurrent(i, r, s) ==
    /\ r \in Regions
    /\ s \in States
    /\ store' = StoresAfterSet(store, i, r, s)
    /\ lastSet' = [lastSet EXCEPT ![i] = (r :> s) @@ @]
    /\ console' = <<>>
    /\ UNCHANGED <<elems, trans, dirty, evaluated>>

\* State.isFinal()
IsFinalByIncoming(s) == Len(elems[s].incoming) = 0
IsFinal(s) == Len(elems[s].outgoing) = 0

\* Region.isComplete(instance)
RegionIsComplete(r, i) ==
    LET currentState == GetCurrent(i, r)
    IN  currentState # Undefined /\ IsFinal(currentState)

\* The guard of transition t applied to (message, instance).  A message is an
\* object reference, or 0 for a value that is no element of the model.
EvalGuard(t, message, i) ==
    CASE trans[t].guard = "always" -> TRUE
      [] trans[t].guard = "isSource" -> message = trans[t].source
      [] trans[t].guard = "never" -> FALSE
      [] trans[t].guard = "gEvent" -> message = 0

\* PseudoState.isHistory()
IsHistory(v) == elems[v].pkind \in {"DeepHistory", "ShallowHistory"}

\* PseudoState.isInitial()
IsInitial(v) == elems[v].pkind = "Initial" \/ IsHistory(v)

\* getAncestors(): [this] for a StateMachine, parent.getAncestors().concat(this)
\* for a Region or Vertex.
GetAncestorsFromParent(e) ==
    IF elems[e].kind = "StateMachine" THEN <<e>> ELSE <<elems[e].parent, e>>
RECURSIVE GetAncestors(_)
GetAncestors(e) ==
    IF elems[e].kind = "StateMachine" THEN <<e>> ELSE GetAncestors(elems[e].parent) \o <<e>>

\* State.isComplete(instance): this.regions.every(region => region.isComplete(instance))
StateIsCompleteSome(s, i) ==
    \E k \in 1..Len(elems[s].regions) : RegionIsComplete(elems[s].regions[k], i)
StateIsComplete(s, i) ==
    \A k \in 1..Len(elems[s].regions) : RegionIsComplete(elems[s].regions[k], i)

\* StateMachine.isComplete(instance)
MachineIsComplete(m, i) ==
    \A k \in 1..Len(elems[m].regions) : RegionIsComplete(elems[m].regions[k], i)

\* isActive(instance): true for a StateMachine; parent.isActive(instance) for a
\* Region, Vertex or PseudoState; for a State also
\* instance.getCurrent(this.parent) === this.
IsActiveInOwnRegion(e, i) ==
    CASE elems[e].kind = "StateMachine" -> TRUE
      [] elems[e].kind = "State" -> GetCurrent(i, elems[e].parent) = e
      [] OTHER -> TRUE
RECURSIVE IsActive(_, _)
IsActive(e, i) ==
    CASE elems[e].kind = "StateMachine" -> TRUE
      [] elems[e].kind = "State" ->
            IsActive(elems[e].parent, i) /\ GetCurrent(i, elems[e].parent) = e
      [] OTHER -> IsActive(elems[e].parent, i)

\* A message is an object reference, or 0 for a value that is no element.
Messages == Ids \cup {0}

\* select(message, instance), abstract in Vertex: the first outgoing
\* transition whose guard is true for the message and instance, if any.
RECURSIVE FirstEnabled(_, _, _)
FirstEnabled(ts, message, i) ==
    IF ts = <<>> THEN Undefined
    ELSE IF EvalGuard(Head(ts), message, i) THEN Head(ts)
    ELSE FirstEnabled(Tail(ts), message, i)

Select(v, message, i) == FirstEnabled(elems[v].outgoing, message, i)

\* The actions of a traverse list: a behaviour callback, or the recording of
\* a state as the current state of its region.
BehaviorAction(b) == [op |-> "behavior", behavior |-> b, region |-> Undefined, state |-> Undefined]
SetCurrentAction(r, s) == [op |-> "setCurrent", behavior |-> "", region |-> r, state |-> s]
BehaviorActions(bs) == [k \in 1..Len(bs) |-> BehaviorAction(bs[k])]

\* transition.traverse: for an Internal transition its effect behaviours; for
\* any other the exit behaviours of a source State, the effect behaviours,
\* and for a target State its entry behaviours and its recording as the
\* current state of its region.
Traverse(t) ==
    LET source == trans[t].source
        target == trans[t].target
        effects == BehaviorActions(trans[t].effectBehavior)
    IN  IF trans[t].kind = "Internal" THEN effects
        ELSE (IF elems[source].kind = "State"
              THEN BehaviorActions(elems[source].exitBehavior) ELSE <<>>) \o
             effects \o
             (IF elems[target].kind = "State"
              THEN BehaviorActions(elems[target].entryBehavior) \o
                   <<SetCurrentAction(elems[target].parent, target)>>
              ELSE <<>>)

\* transition.traverse[i](message, instance, false): the action is invoked and
\* acts on the instance.  run is the instance's store, the history of its
\* setCurrent calls and the actions invoked so far.
InvokeAction(a, run) ==
    [store |-> IF a.op = "setCurrent" THEN (Key(a.region) :> a.state) @@ run.store
               ELSE run.store,
     last |-> IF a.op = "setCurrent" THEN (a.region :> a.state) @@ run.last ELSE run.last,
     invoked |-> Append(run.invoked, a)]

\* for (var i = 0, l = transition.traverse.length; i < l; i++) transition.traverse[i](...)
RECURSIVE TraverseLoopBackwards(_, _)
TraverseLoopBackwards(actions, run) ==
    IF actions = <<>> THEN run
    ELSE InvokeAction(Head(actions), TraverseLoopBackwards(Tail(actions), run))
RECURSIVE TraverseLoop(_, _)
TraverseLoop(actions, run) ==
    IF actions = <<>> THEN run
    ELSE TraverseLoop(Tail(actions), InvokeAction(Head(actions), run))

\* vertex.evaluate(message, instance)
Evaluate(v, message, i) ==
    LET transition == Select(v, message, i)
        run0 == [store |-> store[i], last |-> lastSet[i], invoked |-> <<>>]
        run == IF transition = Undefined THEN run0
               ELSE TraverseLoop(Traverse(transition), run0)
    IN  /\ v \in Vertices
        /\ store' = [store EXCEPT ![i] = run.store]
        /\ lastSet' = [lastSet EXCEPT ![i] = run.last]
        /\ evaluated' = [returned |-> transition # Undefined, invoked |-> run.invoked]
        /\ console' = <<>>
        /\ UNCHANGED <<elems, trans, dirty>>

\* Construction of the elements of a model graph, up to limit elements.
Create(machineNames, regionNames, limit) ==
    \/ \E name \in machineNames : NewStateMachine(name) /\ Len(elems') <= limit
    \/ \E name \in regionNames, parent \in Ids :
          NewRegion(name, parent) /\ Len(elems') <= limit
    \/ \E name \in VertexNames, parent \in Ids :
          \/ NewVertex("Vertex", name, parent, "none") /\ Len(elems') <= limit
          \/ NewVertex("State", name, parent, "none") /\ Len(elems') <= limit
          \/ \E pkind \in PseudoStateKindInputs :
                NewVertex("PseudoState", name, parent, pkind) /\ Len(elems') <= limit
    \/ \E source \in Ids, target \in Ids \cup {Undefined}, kind \in TransitionKinds :
          NewTransition(source, target, kind)

\* The builder surface and initialise.  The store is written by initialise only.
Next ==
    \/ Create(GraphMachineNames, GraphRegionNames, MaxGraphElements)
    \/ \E t \in TIds : Else(t)
    \/ \E t \in TIds, guard \in UserGuards : When(t, guard)
    \/ \E t \in TIds, action \in Behaviors : Effect(t, action)
    \/ \E s \in Ids, action \in Behaviors : Exit(s, action)
    \/ \E s \in Ids, action \in Behaviors : Enter(s, action)
    \/ \E m \in Ids, instance \in Instances \cup {NoInstance}, auto \in BOOLEAN :
          Initialise(m, instance, auto)

Spec == Init /\ [][Next]_vars

\* Construction and the instance store: setCurrent on any instance, for any
\* region and state, and initialise of any instance, between any two
\* construction steps.
NextStore ==
    \/ Create(MachineNames, RegionNames, MaxGraphElements)
    \/ \E i \in Instances, r \in Ids, s \in Ids : SetCurrent(i, r, s)
    \/ \E m \in Ids, instance \in Instances : Initialise(m, instance, TRUE)

SpecStore == Init /\ [][NextStore]_vars

\* Deep hierarchies and several models: machines, regions, States and
\* External transitions up to the capacity of the arena, and setCurrent on
\* one instance for any region and state.
NextHierarchy ==
    \/ \E name \in GraphMachineNames : NewStateMachine(name)
    \/ \E name \in GraphRegionNames, parent \in Ids : NewRegion(name, parent)
    \/ \E name \in VertexNames, parent \in Ids : NewVertex("State", name, parent, "none")
    \/ \E source \in Ids, target \in Ids : NewTransition(source, target, "External")
    \/ \E i \in HierarchyInstances, r \in Ids, s \in Ids : SetCurrent(i, r, s)

SpecHierarchy == Init /\ [][NextHierarchy]_vars

\* Evaluation: the builder surface, and vertex.evaluate of any message at any
\* vertex on one instance.
NextEvaluate ==
    \/ Create(GraphMachineNames, GraphRegionNames, MaxGraphElements)
    \/ \E t \in TIds : Else(t)
    \/ \E t \in TIds, guard \in UserGuards : When(t, guard)
    \/ \E t \in TIds, action \in Behaviors : Effect(t, action)
    \/ \E s \in Ids, action \in Behaviors : Exit(s, action)
    \/ \E s \in Ids, action \in Behaviors : Enter(s, action)
    \/ \E v \in Ids, message \in Messages, i \in HierarchyInstances : Evaluate(v, message, i)

SpecEvaluate == Init /\ [][NextEvaluate]_vars

(***************************************************************************)
(* Properties.                                                             *)
(***************************************************************************)

\* Some transition from another model targets a vertex of machine m.
TargetOfForeignTransition(m) ==
    \E t \in TIds : /\ trans[t].target # Undefined
                    /\ GetRoot(trans[t].target) = m
                    /\ GetRoot(trans[t].source) # m

\* The console shows a compile of machine m: "initialise <m>" first.
CompileLogged(c, m) ==
    /\ Len(c) > 0
    /\ c[1].line = "initialise" /\ c[1].kind = "model" /\ c[1].id = m

\* The console shows a Visitor walk.
WalkLogged(c) == \E k \in 1..Len(c) : c[k].line = "visiting"

\* C1: a machine's compiled flag (clean) is true only if no build operation
\* (new Region, new Vertex/State/PseudoState, new Transition, state.enter,
\* state.exit, transition.effect) was applied to that machine since its last
\* compile, and the flag goes from false to true only in a step that runs the
\* compile pass of that machine.  Build operations on one model: a machine
\* that is the target of a transition from another model is left out.
C1_CleanOnlyAfterCompile ==
    /\ [](\A m \in Machines :
            (elems[m].clean /\ ~TargetOfForeignTransition(m)) => m \notin dirty)
    /\ [][\A m \in Machines :
            (~elems[m].clean /\ elems'[m].clean) => CompileLogged(console', m)]_vars

\* C1 witness: a machine with a region, a vertex and a transition was compiled
\* after its last mutation.
C1_Witness ==
    \E m \in Machines :
        /\ elems[m].clean /\ m \notin dirty
        /\ Len(elems[m].regions) > 0
        /\ \E t \in TIds : GetRoot(trans[t].source) = m

\* The root default region of m holds an Initial pseudo-state with a
\* transition to a State of that region.
HasInitialToState(m) ==
    LET r == elems[m].defaultRegion
    IN  /\ r # Undefined
        /\ \E t \in TIds :
              /\ elems[trans[t].source].kind = "PseudoState"
              /\ elems[trans[t].source].pkind = "Initial"
              /\ elems[trans[t].source].parent = r
              /\ trans[t].target # Undefined
              /\ elems[trans[t].target].kind = "State"
              /\ elems[trans[t].target].parent = r

\* C2: after model.initialise(instance) on a model whose root default region
\* has an Initial pseudo-state with a transition to a State, the instance's
\* current state of that region is a State of that region.
C2_InitialiseEntersDefaultRegion ==
    [][\A m \in Machines, i \in Instances :
          (Initialise(m, i, TRUE) /\ HasInitialToState(m)) =>
             LET c == GetCurrentIn(store'[i], elems[m].defaultRegion)
             IN  /\ c # Undefined
                 /\ elems[c].kind = "State"
                 /\ elems[c].parent = elems[m].defaultRegion]_vars

\* C3: state.enter(b) appends b to the entry-behaviour list and leaves the
\* exit-behaviour list unchanged; state.exit(b) appends b to the
\* exit-behaviour list and leaves the entry-behaviour list unchanged.
C3_EnterExitIndependent ==
    [][\A s \in States, b \in Behaviors :
          /\ Enter(s, b) =>
                /\ elems'[s].entryBehavior = Append(elems[s].entryBehavior, b)
                /\ elems'[s].exitBehavior = elems[s].exitBehavior
          /\ Exit(s, b) =>
                /\ elems'[s].exitBehavior = Append(elems[s].exitBehavior, b)
                /\ elems'[s].entryBehavior = elems[s].entryBehavior]_vars

\* C4: model.initialise(instance) with default arguments leaves the compiled
\* flag true, and runs the compile pass (the Visitor walk) inside the call
\* exactly when the flag was false at the call.
C4_InitialiseAutoCompiles ==
    [][\A m \in Machines, i \in Instances :
          Initialise(m, i, TRUE) =>
             /\ elems'[m].clean
             /\ WalkLogged(console') <=> ~elems[m].clean
             /\ CompileLogged(console', m) <=> ~elems[m].clean]_vars

\* C4 witness: initialise(instance) was called on a model that has a vertex
\* and was not compiled; the walk ran inside the call and the flag is true.
C4_Witness ==
    \E m \in Machines :
        /\ elems[m].clean
        /\ CompileLogged(console, m)
        /\ WalkLogged(console)
        /\ console[Len(console)].kind = "instance"
        /\ \E v \in Vertices : GetRoot(v) = m

\* C5: model.initialise() on a model whose compiled flag is already true
\* leaves the graph (regions, vertices, transitions, behaviour lists, guards,
\* initialise actions) and the flag exactly as they were.
C5_CompileIdempotent ==
    [][\A m \in Machines :
          (Initialise(m, NoInstance, TRUE) /\ elems[m].clean) =>
             (elems' = elems /\ trans' = trans /\ store' = store)]_vars

\* C5 witness: a compiled model with a vertex, a transition and a behaviour,
\* right after a compile pass.
C5_Witness ==
    \E m \in Machines :
        /\ elems[m].clean
        /\ CompileLogged(console, m)
        /\ console[Len(console)].kind = "element"
        /\ \E t \in TIds : GetRoot(trans[t].source) = m
        /\ \E s \in States : GetRoot(s) = m /\ Len(elems[s].exitBehavior) > 0

\* C6 (as stated): for any two distinct Region objects r1 and r2,
\* setCurrent(r1, s) never changes what getCurrent(r2) returns.
C6_DistinctRegionsNeverCollide ==
    [][\A i \in Instances, r1 \in Regions, r2 \in Regions, s \in States :
          (r1 # r2 /\ SetCurrent(i, r1, s)) =>
             GetCurrentIn(store'[i], r2) = GetCurrentIn(store[i], r2)]_vars

\* C6 (amended): for any two Region objects r1 and r2 with different
\* qualified names, setCurrent(r1, s) never changes what getCurrent(r2)
\* returns.
C6_DistinctNamesNeverCollide ==
    [][\A i \in Instances, r1 \in Regions, r2 \in Regions, s \in States :
          (elems[r1].qualifiedName # elems[r2].qualifiedName /\ SetCurrent(i, r1, s)) =>
             GetCurrentIn(store'[i], r2) = GetCurrentIn(store[i], r2)]_vars

\* C6 witness: two regions with different qualified names, one with a current
\* state on an instance and the other still without one.
C6_Witness ==
    \E i \in Instances, r1 \in Regions, r2 \in Regions :
        /\ elems[r1].qualifiedName # elems[r2].qualifiedName
        /\ r1 \in DOMAIN lastSet[i]
        /\ GetCurrent(i, r1) # Undefined
        /\ GetCurrent(i, r2) = Undefined

\* No other region has the qualified name of region r.
UniqueName(r) ==
    \A r2 \in Regions \ {r} : elems[r2].qualifiedName # elems[r].qualifiedName

\* The state of the last setCurrent(r, .) made on instance i, if any.
LastSet(i, r) == IF r \in DOMAIN lastSet[i] THEN lastSet[i][r] ELSE Undefined

\* C7: for a region whose qualified name no other region has, getCurrent(r)
\* on instance i returns the state of the last setCurrent(r, .) made on i, or
\* undefined if i never had one, whatever was set on the other instances.
C7_StoreIsMapPerInstance ==
    \A i \in Instances, r \in Regions : UniqueName(r) => GetCurrent(i, r) = LastSet(i, r)

\* C7 witness: a region was set on one instance and never on another, and a
\* second region was set on that other instance.
C7_Witness ==
    \E i \in Instances, j \in Instances, r \in Regions, r2 \in Regions :
        /\ i # j /\ r # r2 /\ UniqueName(r) /\ UniqueName(r2)
        /\ GetCurrent(i, r) # Undefined /\ GetCurrent(j, r) = Undefined
        /\ GetCurrent(j, r2) # Undefined /\ GetCurrent(i, r2) = Undefined

\* C8: a Transition without a target has kind Internal whatever kind was
\* requested; a Transition constructed with a target keeps the requested
\* kind and is appended to its source's outgoing and its target's incoming.
C8_TransitionKindAndLists ==
    /\ [](\A t \in TIds : trans[t].target = Undefined => trans[t].kind = "Internal")
    /\ [][\A source \in Vertices, target \in Vertices, kind \in TransitionKinds :
            NewTransition(source, target, kind) =>
               LET t == Len(trans')
               IN  /\ trans'[t].kind = kind
                   /\ trans'[t].source = source /\ trans'[t].target = target
                   /\ elems'[source].outgoing = Append(elems[source].outgoing, t)
                   /\ elems'[target].incoming = Append(elems[target].incoming, t)]_vars

\* C8 witness: a transition without a target, of kind Internal, in its
\* source's outgoing list.
C8_Witness ==
    \E t \in TIds :
        /\ trans[t].target = Undefined
        /\ trans[t].kind = "Internal"
        /\ elems[trans[t].source].outgoing = <<t>>

\* Neither when() nor else() replaced the guard the constructor set.
HasDefaultGuard(t) == trans[t].guard \in {"always", "isSource"}

\* C9: the guard of a Transition on which neither when() nor else() was
\* called is true for every message and instance if the source is a
\* PseudoState, and true exactly for the message that is the source itself if
\* the source is a State.
C9_DefaultGuard ==
    \A t \in TIds, message \in Messages, i \in Instances :
        HasDefaultGuard(t) =>
           /\ elems[trans[t].source].kind = "PseudoState" => EvalGuard(t, message, i)
           /\ elems[trans[t].source].kind = "State" =>
                 (EvalGuard(t, message, i) <=> message = trans[t].source)

\* C9 witness: a transition with its default guard whose source is a State,
\* in a model with another State.
C9_Witness ==
    \E t \in TIds, s \in States :
        /\ HasDefaultGuard(t)
        /\ elems[trans[t].source].kind = "State"
        /\ s # trans[t].source
        /\ ~EvalGuard(t, s, "i1") /\ EvalGuard(t, trans[t].source, "i1")

\* C10: Region.isComplete(instance) is true iff the instance has a current
\* state recorded for the region and that state has an empty outgoing list;
\* adding an outgoing transition (with or without target) to the current
\* state makes the region not complete.
C10_RegionComplete ==
    /\ [](\A i \in Instances, r \in Regions :
            UniqueName(r) =>
               (RegionIsComplete(r, i) <=>
                  (LastSet(i, r) # Undefined /\ Len(elems[LastSet(i, r)].outgoing) = 0)))
    /\ [][\A i \in Instances, r \in Regions, source \in Vertices,
            target \in Vertices \cup {Undefined}, kind \in TransitionKinds :
            (NewTransition(source, target, kind) /\ GetCurrent(i, r) = source) =>
               ~(RegionIsComplete(r, i))']_vars

\* C10 witness: a region whose recorded current state got a transition
\* without target, so that the region is not complete.
C10_Witness ==
    \E i \in Instances, r \in Regions, t \in TIds :
        /\ UniqueName(r)
        /\ GetCurrent(i, r) = trans[t].source
        /\ trans[t].target = Undefined
        /\ ~RegionIsComplete(r, i)

\* C13: every Region contains at most one PseudoState of an initial-like kind
\* (Initial, DeepHistory or ShallowHistory).
C13_AtMostOneInitialPerRegion ==
    \A r \in Regions :
        Cardinality({v \in PseudoStates : elems[v].parent = r /\ IsInitial(v)}) <= 1

\* Transition t is as it was but for its guard, and nothing else changed.
OnlyGuardChanged(t) ==
    /\ elems' = elems
    /\ store' = store
    /\ trans' = [trans EXCEPT ![t].guard = trans'[t].guard]

\* C19: transition.when(guard) and transition.else() change only the
\* transition's guard (the compiled flag of the root, the effect list, kind,
\* source, target and every outgoing / incoming list stay as they were);
\* after else() the guard is false for every message and instance, and after
\* when(guard) the guard is the one given, whatever was set before.
C19_WhenElseChangeOnlyGuard ==
    [][\A t \in TIds :
          /\ Else(t) =>
                /\ OnlyGuardChanged(t)
                /\ \A message \in Messages, i \in Instances : ~EvalGuard(t, message, i)'
          /\ \A guard \in UserGuards :
                When(t, guard) => (OnlyGuardChanged(t) /\ trans'[t].guard = guard)]_vars

\* C19 witness: a transition with an effect, in a compiled model, right after
\* else() replaced its guard: the model is still compiled.
C19_Witness ==
    \E t \in TIds :
        /\ trans[t].guard = "never"
        /\ Len(trans[t].effectBehavior) > 0
        /\ elems[GetRoot(trans[t].source)].clean
        /\ console = <<>>
        /\ Cardinality(Machines) = 1

\* C20: for every Region and Vertex e, getAncestors(e) is the chain from the
\* root to e: its first element is getRoot(e), a StateMachine, its last is e,
\* each element is the parent of the next, no element appears twice, and
\* getRoot is the same StateMachine for every element of the chain.
C20_AncestorsAreRootToSelfChain ==
    \A e \in Regions \cup Vertices :
        LET a == GetAncestors(e)
        IN  /\ a[1] = GetRoot(e)
            /\ elems[a[1]].kind = "StateMachine"
            /\ a[Len(a)] = e
            /\ \A k \in 1..(Len(a) - 1) : elems[a[k + 1]].parent = a[k]
            /\ \A k, l \in 1..Len(a) : a[k] = a[l] => k = l
            /\ \A k \in 1..Len(a) : GetRoot(a[k]) = GetRoot(e)

\* C20 witness: a State nested in a State, whose chain has five elements
\* (machine, region, state, region, state), next to a second machine.
C20_Witness ==
    \E e \in States :
        /\ Len(GetAncestors(e)) = 5
        /\ Cardinality(Machines) = 2

\* The number of times x occurs in the list seq.
Count(seq, x) == Cardinality({k \in 1..Len(seq) : seq[k] = x})

\* The list seq is in creation order: object references ascend.
InCreationOrder(seq) == \A k, l \in 1..Len(seq) : k < l => seq[k] < seq[l]

\* The list old is an initial part of the list new.
IsPrefix(old, new) == Len(old) <= Len(new) /\ \A k \in 1..Len(old) : new[k] = old[k]

\* C16: ownership is a tree: every Vertex appears exactly once in the
\* vertices list of its parent, a Region, and in no other list; every Region
\* appears exactly once in the regions list of its parent, a State or
\* StateMachine, and in no other list; both lists are in creation order and
\* never shrink.
C16_OwnershipIsTree ==
    /\ [](/\ \A v \in Vertices :
                /\ elems[v].parent \in Regions
                /\ \A e \in Ids :
                      Count(elems[e].vertices, v) = IF e = elems[v].parent THEN 1 ELSE 0
          /\ \A r \in Regions :
                /\ elems[r].parent \in States \cup Machines
                /\ \A e \in Ids :
                      Count(elems[e].regions, r) = IF e = elems[r].parent THEN 1 ELSE 0
          /\ \A e \in Ids :
                /\ InCreationOrder(elems[e].vertices) /\ InCreationOrder(elems[e].regions)
                /\ \A k \in 1..Len(elems[e].vertices) : elems[e].vertices[k] \in Vertices
                /\ \A k \in 1..Len(elems[e].regions) : elems[e].regions[k] \in Regions)
    /\ [][\A e \in Ids :
            /\ IsPrefix(elems[e].vertices, elems'[e].vertices)
            /\ IsPrefix(elems[e].regions, elems'[e].regions)
            /\ elems'[e].parent = elems[e].parent]_vars

\* C16 witness: a machine that owns two regions, one of which owns a vertex.
C16_Witness ==
    \E m \in Machines, r \in Regions :
        /\ Len(elems[m].regions) = 2
        /\ elems[r].parent = m
        /\ Len(elems[r].vertices) = 1

\* C18: a Vertex created with a State or StateMachine as parent is placed in
\* that parent's default region; the first such creation adds one region
\* named "default" to the parent, every later one reuses it and adds none;
\* a default region, once created, stays the parent's default region.
C18_DefaultRegionCreatedOnce ==
    /\ [][\A parent \in States \cup Machines, name \in VertexNames,
            kind \in {"Vertex", "State", "PseudoState"},
            pkind \in PseudoStateKindInputs \cup {"none"} :
            (/\ Len(elems') > Len(elems)
             /\ elems'[Len(elems')].kind = kind
             /\ elems'[Len(elems')].pkind = pkind
             /\ NewVertex(kind, name, parent, pkind)) =>
               LET v == Len(elems')
                   d == elems'[parent].defaultRegion
               IN  /\ d \in Regions'
                   /\ elems'[v].parent = d
                   /\ elems'[d].vertices[Len(elems'[d].vertices)] = v
                   /\ elems'[d].name = "default" /\ elems'[d].parent = parent
                   /\ IF elems[parent].defaultRegion # Undefined
                      THEN /\ d = elems[parent].defaultRegion
                           /\ elems'[parent].regions = elems[parent].regions
                           /\ Len(elems') = Len(elems) + 1
                      ELSE /\ d = Len(elems) + 1
                           /\ elems'[parent].regions = Append(elems[parent].regions, d)
                           /\ Len(elems') = Len(elems) + 2]_vars
    /\ [][\A e \in Ids :
            elems[e].defaultRegion # Undefined =>
               elems'[e].defaultRegion = elems[e].defaultRegion]_vars

\* C18 witness: a machine whose default region is its only region and holds
\* two vertices.
C18_Witness ==
    \E m \in Machines :
        /\ elems[m].defaultRegion # Undefined
        /\ elems[m].regions = <<elems[m].defaultRegion>>
        /\ Len(elems[elems[m].defaultRegion].vertices) = 2

\* The visits of the Visitor walk the console shows, in the order made.
IsVisit(l) == l.line = "visiting"
WalkOnConsole == SelectSeq(console, IsVisit)

\* The positions in walk w of the visits of kind k made for object x.
VisitsOf(w, k, x) == {p \in 1..Len(w) : w[p].kind = k /\ w[p].id = x}

\* The position in walk w of the visit of kind k made for object x.
Pos(w, k, x) == CHOOSE p \in VisitsOf(w, k, x) : TRUE

\* The objects of list seq are visited in walk w in the order of the list.
VisitedInListOrder(w, k, seq) ==
    \A a, b \in 1..Len(seq) : a < b => Pos(w, k, seq[a]) < Pos(w, k, seq[b])

\* C14: the walk a compile of machine m makes is post-order: the machine,
\* each Region and each Vertex under it get their node visit exactly once and
\* nothing else does; each outgoing transition of a vertex is visited once,
\* before the vertex; a region's vertices are visited before the region, a
\* state's or machine's regions before it; children are visited in
\* declaration order; and the step that makes the walk leaves the graph as
\* it was, the compiled flag being set by initialise after the walk.
C14_WalkIsPostOrder ==
    /\ [](\A m \in Machines :
            CompileLogged(console, m) =>
               LET w == WalkOnConsole
               IN  /\ \A e \in Ids :
                         Cardinality(VisitsOf(w, "element", e)) =
                            IF GetRoot(e) = m THEN 1 ELSE 0
                   /\ \A t \in TIds :
                         Cardinality(VisitsOf(w, "transition", t)) =
                            IF GetRoot(trans[t].source) = m THEN 1 ELSE 0
                   /\ Len(w) = Cardinality({e \in Ids : GetRoot(e) = m}) +
                               Cardinality({t \in TIds : GetRoot(trans[t].source) = m})
                   /\ \A e \in Ids :
                         GetRoot(e) = m =>
                            /\ e # m => Pos(w, "element", e) < Pos(w, "element", elems[e].parent)
                            /\ \A k \in 1..Len(elems[e].outgoing) :
                                  Pos(w, "transition", elems[e].outgoing[k]) < Pos(w, "element", e)
                            /\ VisitedInListOrder(w, "element", elems[e].vertices)
                            /\ VisitedInListOrder(w, "element", elems[e].regions)
                            /\ VisitedInListOrder(w, "transition", elems[e].outgoing))
    /\ [][\A m \in Machines :
            CompileLogged(console', m) =>
               /\ elems' = [elems EXCEPT ![m].clean = TRUE]
               /\ trans' = trans]_vars

\* C14 witness: the walk of a machine with a region of two vertices and a
\* transition was made.
C14_Witness ==
    \E m \in Machines, r \in Regions :
        /\ CompileLogged(console, m)
        /\ GetRoot(r) = m
        /\ Len(elems[r].vertices) = 2
        /\ \E t \in TIds : VisitsOf(WalkOnConsole, "transition", t) # {}

\* C12: every Transition that has a target has its source and its target
\* under the same root StateMachine.
C12_SourceAndTargetShareRoot ==
    \A t \in TIds :
        trans[t].target # Undefined => GetRoot(trans[t].source) = GetRoot(trans[t].target)

\* Region r, whose qualified name no other region has, has no recorded
\* current state on instance i, or one with an outgoing transition.
NotDone(r, i) ==
    /\ UniqueName(r)
    /\ \/ LastSet(i, r) = Undefined
       \/ Len(elems[LastSet(i, r)].outgoing) > 0

\* C11: State.isComplete(instance) is true iff every child Region of the
\* state is complete for the instance, and StateMachine.isComplete(instance)
\* iff every top-level Region is; a State without regions is always
\* complete, and a State or StateMachine is not complete while one of its
\* regions has no recorded current state or one that is not final.
C11_CompleteIffEveryRegionComplete ==
    \A i \in Instances :
        /\ \A s \in States :
              /\ StateIsComplete(s, i) <=>
                    \A r \in Regions : elems[r].parent = s => RegionIsComplete(r, i)
              /\ Len(elems[s].regions) = 0 => StateIsComplete(s, i)
              /\ (\E r \in Regions : elems[r].parent = s /\ NotDone(r, i)) =>
                    ~StateIsComplete(s, i)
        /\ \A m \in Machines :
              /\ MachineIsComplete(m, i) <=>
                    \A r \in Regions : elems[r].parent = m => RegionIsComplete(r, i)
              /\ (\E r \in Regions : elems[r].parent = m /\ NotDone(r, i)) =>
                    ~MachineIsComplete(m, i)

\* C11 witness: an orthogonal State, one region of which is complete while
\* the other has no recorded current state, in a machine that is complete.
C11_Witness ==
    \E i \in Instances, s \in States, r1 \in Regions, r2 \in Regions :
        /\ elems[s].regions = <<r1, r2>>
        /\ UniqueName(r1) /\ UniqueName(r2)
        /\ RegionIsComplete(r1, i)
        /\ LastSet(i, r2) = Undefined
        /\ ~StateIsComplete(s, i)
        /\ MachineIsComplete(GetRoot(s), i)

\* The States on the ancestor chain of element e, e included.
StatesOnChain(e) ==
    {a \in States : \E k \in 1..Len(GetAncestors(e)) : GetAncestors(e)[k] = a}

\* C17: State.isActive(instance) is true iff for the state itself and every
\* State on its ancestor chain, the instance's current state of that State's
\* parent region is that State; a StateMachine is always active; and a
\* setCurrent that records another state for the parent region of a State
\* leaves that State and every State below it inactive.
C17_ActiveIffChainCurrent ==
    /\ [](\A i \in Instances :
            /\ \A m \in Machines : IsActive(m, i)
            /\ \A s \in States :
                  IsActive(s, i) <=>
                     \A a \in StatesOnChain(s) : GetCurrent(i, elems[a].parent) = a)
    /\ [][\A i \in Instances, r \in Regions, s2 \in States :
            SetCurrent(i, r, s2) =>
               \A s \in States : \A a \in StatesOnChain(s) :
                  (elems[a].parent = r /\ a # s2) => ~IsActive(s, i)']_vars

\* C17 witness: a State nested in a State is the current state of its own
\* region but not active, its ancestor's region having another current state.
C17_Witness ==
    \E i \in Instances, s \in States, a \in States :
        /\ a \in StatesOnChain(s) /\ a # s
        /\ GetCurrent(i, elems[s].parent) = s
        /\ LastSet(i, elems[a].parent) \notin {Undefined, a}
        /\ ~IsActive(s, i)

\* C15: vertex.evaluate(message, instance) returns true iff select(message,
\* instance) yields a transition; when none is selected it returns false,
\* invokes no traverse action and leaves the instance's active configuration
\* as it was; when one is selected it invokes the actions of that
\* transition's traverse list, each once, in list order, and returns true.
\* The model graph is not changed by the call.
C15_EvaluateRunsSelectedTraverse ==
    [][\A v \in Vertices, message \in Messages, i \in HierarchyInstances :
          Evaluate(v, message, i) =>
             LET transition == Select(v, message, i)
             IN  /\ evaluated'.returned <=> transition # Undefined
                 /\ transition = Undefined =>
                       (evaluated'.invoked = <<>> /\ store' = store)
                 /\ transition # Undefined =>
                       evaluated'.invoked = Traverse(transition)
                 /\ \A j \in Instances \ {i} : store'[j] = store[j]
                 /\ elems' = elems /\ trans' = trans]_vars

\* C15 witness: an evaluate call returned true after invoking an exit
\* behaviour, an effect and the recording of the target, in that order.
C15_Witness ==
    /\ evaluated.returned
    /\ Len(evaluated.invoked) = 3
    /\ evaluated.invoked[1].op = "behavior"
    /\ evaluated.invoked[2].op = "behavior"
    /\ evaluated.invoked[1].behavior # evaluated.invoked[2].behavior
    /\ evaluated.invoked[3].op = "setCurrent"
    /\ GetCurrent("i1", evaluated.invoked[3].region) = evaluated.invoked[3].state
====
